---- MODULE Spec2Model ----
(***************************************************************************)
(* Model of the SEC research agent (src/src/sec-agent.ts): the envelope   *)
(* dispatch of SECAgent.processEnvelope, the query pipeline                *)
(* (_handleFinancialQuery, _searchSEC, _rateLimit, _getCompanySubmissions),*)
(* the company directory (_fallbackCompanyLookup), the classifier          *)
(* (_isFinancialQuery) and the report formatter (_formatSECResults).       *)
(*                                                                         *)
(* Strings are TLA+ strings; a JavaScript value that may be null or        *)
(* undefined is a sequence of length 0 (absent) or 1 (present).            *)
(* Time is in milliseconds.  Synchronous code and promise continuations    *)
(* run to completion without the clock advancing; the clock advances only  *)
(* between macrotasks (action Tick).                                       *)
(***************************************************************************)
EXTENDS Integers, Sequences, FiniteSets, TLC

VARIABLES
    now,              \* Date.now()
    lastRequestTime,  \* SECAgent.lastRequestTime
    proc,             \* one record per POST in flight (a processEnvelope call)
    lastGet,          \* history: the latest query that issued a GET
    received,         \* history: events received so far
    lookupArg,        \* directory harness: the name looked up
    lookupRes,        \* directory harness: [done, result] of the last lookup
    filingsArg,       \* formatter harness: the submissions analysed
    filingsRes        \* formatter harness: [done, result] of the last formatting

vars == <<now, lastRequestTime, proc, lastGet, received, lookupArg, lookupRes, filingsArg, filingsRes>>

Null == <<>>
Some(x) == <<x>>
Min(a, b) == IF a < b THEN a ELSE b

----------------------------------------------------------------------------
(* String primitives of the JavaScript runtime.                            *)

UpperChars == "ABCDEFGHIJKLMNOPQRSTUVWXYZ"
LowerChars == "abcdefghijklmnopqrstuvwxyz"
WhiteSpace == {" ", "\t", "\n"}

CharAt(s, i) == SubSeq(s, i, i)

\* String.prototype.toLowerCase, one character
LowerChar(c) ==
    IF \E i \in 1..Len(UpperChars) : CharAt(UpperChars, i) = c
    THEN CharAt(LowerChars, CHOOSE i \in 1..Len(UpperChars) : CharAt(UpperChars, i) = c)
    ELSE c

RECURSIVE toLowerCase(_)
toLowerCase(s) ==
    IF s = "" THEN ""
    ELSE LowerChar(CharAt(s, 1)) \o toLowerCase(SubSeq(s, 2, Len(s)))

RECURSIVE trimStart(_)
trimStart(s) ==
    IF s # "" /\ CharAt(s, 1) \in WhiteSpace THEN trimStart(SubSeq(s, 2, Len(s))) ELSE s

RECURSIVE trimEnd(_)
trimEnd(s) ==
    IF s # "" /\ CharAt(s, Len(s)) \in WhiteSpace THEN trimEnd(SubSeq(s, 1, Len(s) - 1)) ELSE s

\* String.prototype.trim
trim(s) == trimEnd(trimStart(s))

\* String.prototype.includes: sub occurs in s at some offset (the empty
\* string occurs in every string, at offset 0)
includes(s, sub) ==
    \E off \in 0..(Len(s) - Len(sub)) : SubSeq(s, off + 1, off + Len(sub)) = sub

\* Array.prototype.join('') over the token values
RECURSIVE join(_)
join(tokens) == IF tokens = <<>> THEN "" ELSE Head(tokens) \o join(Tail(tokens))

----------------------------------------------------------------------------
(* CompanyDirectory: knownCompanies and _fallbackCompanyLookup.            *)

\* Object.entries(this.knownCompanies): string keys in insertion order
knownCompanies == <<
    [key |-> "apple",     cik |-> "0000320193", ticker |-> "AAPL",  title |-> "Apple Inc."],
    [key |-> "microsoft", cik |-> "0000789019", ticker |-> "MSFT",  title |-> "Microsoft Corporation"],
    [key |-> "tesla",     cik |-> "0001318605", ticker |-> "TSLA",  title |-> "Tesla, Inc."],
    [key |-> "amazon",    cik |-> "0001018724", ticker |-> "AMZN",  title |-> "Amazon.com, Inc."],
    [key |-> "google",    cik |-> "0001652044", ticker |-> "GOOGL", title |-> "Alphabet Inc."],
    [key |-> "alphabet",  cik |-> "0001652044", ticker |-> "GOOGL", title |-> "Alphabet Inc."],
    [key |-> "meta",      cik |-> "0001326801", ticker |-> "META",  title |-> "Meta Platforms, Inc."],
    [key |-> "facebook",  cik |-> "0001326801", ticker |-> "META",  title |-> "Meta Platforms, Inc."],
    [key |-> "nvidia",    cik |-> "0001045810", ticker |-> "NVDA",  title |-> "NVIDIA Corporation"],
    [key |-> "netflix",   cik |-> "0001065280", ticker |-> "NFLX",  title |-> "Netflix, Inc."] >>

CompanyData(e) == [cik |-> e.cik, ticker |-> e.ticker, title |-> e.title]

\* the test of the loop body: key.includes(companyKey) || companyKey.includes(key)
KeyMatches(key, companyKey) == includes(key, companyKey) \/ includes(companyKey, key)

\* a loop that does not return at the first match: the last match wins
RECURSIVE LookupLastFrom(_, _)
LookupLastFrom(i, companyKey) ==
    IF i > Len(knownCompanies) THEN Null
    ELSE LET later == LookupLastFrom(i + 1, companyKey)
         IN IF later # Null THEN later
            ELSE IF includes(knownCompanies[i].key, companyKey)
                    \/ includes(companyKey, knownCompanies[i].key)
                 THEN Some(CompanyData(knownCompanies[i]))
                 ELSE Null

\* the for..of loop from entry i on: the first matching entry's data, else null
RECURSIVE LookupFrom(_, _)
LookupFrom(i, companyKey) ==
    IF i > Len(knownCompanies) THEN Null
    ELSE IF KeyMatches(knownCompanies[i].key, companyKey)
         THEN Some(CompanyData(knownCompanies[i]))
         ELSE LookupFrom(i + 1, companyKey)

_fallbackCompanyLookup(companyName) == LookupFrom(1, trim(toLowerCase(companyName)))

\* _findCompanyCIK: the directory lookup and nothing else (no I/O); its
\* catch block repeats the same lookup and is never entered
_findCompanyCIK(companyName) == _fallbackCompanyLookup(companyName)

----------------------------------------------------------------------------
(* QueryClassifier: _isFinancialQuery.                                     *)

financialIndicators == <<
    "company", "financial", "revenue", "earnings", "profit", "stock",
    "investment", "market cap", "sec filing", "annual report",
    "quarterly", "balance sheet", "income statement", "cash flow",
    "public company", "ticker", "investor", "shareholder" >>

_isFinancialQuery(query) ==
    LET queryLower == toLowerCase(query)
    IN \E i \in 1..Len(financialIndicators) : includes(queryLower, financialIndicators[i])

----------------------------------------------------------------------------
(* ReportFormatter.  A CompanySubmissions value, as parsed from the JSON   *)
(* body, is a record                                                       *)
(*   [description, sic, fiscalYearEnd : absent or a string,                *)
(*    recent : absent or [form : absent or [isArray, items],               *)
(*                        filingDate, accessionNumber : absent or array]]  *)
(* A filing date or accession number is an opaque value (an integer id).   *)
(* form.isArray is FALSE when the JSON body carries a string where the     *)
(* interface declares string[]; items are then its characters.             *)
(* The rendered text is kept as its parts, in the order they are appended. *)

keyForms == <<"10-K", "10-Q", "8-K", "DEF 14A">>
IsKeyForm(f) == \E k \in 1..Len(keyForms) : keyForms[k] = f

ScanLimit == 20       \* Math.min(forms.length, 20)
ShownLimit == 5       \* recentKeyFilings.slice(0, 5)
DescriptionLimit == 300

formDescriptions(f) ==
    CASE f = "10-K" -> "Annual Report"
      [] f = "10-Q" -> "Quarterly Report"
      [] f = "8-K" -> "Current Report"
      [] f = "DEF 14A" -> "Proxy Statement"
      [] OTHER -> f

OrEmpty(m) == IF m = Null THEN <<>> ELSE m[1]

\* the guard of the push in the scan loop, at 0-based index i
Keeps(forms, filingDates, i) == IsKeyForm(forms[i + 1]) /\ i < Len(filingDates)

\* a scan loop without the 20-entry limit
RECURSIVE ScanAllFrom(_, _, _, _)
ScanAllFrom(i, forms, filingDates, accessionNumbers) ==
    IF ~(i < Len(forms)) THEN <<>>
    ELSE LET rest == ScanAllFrom(i + 1, forms, filingDates, accessionNumbers)
         IN IF IsKeyForm(forms[i + 1]) /\ i < Len(filingDates)
            THEN <<[form |-> forms[i + 1],
                    date |-> filingDates[i + 1],
                    accession |-> IF i < Len(accessionNumbers)
                                  THEN Some(accessionNumbers[i + 1]) ELSE Null]>> \o rest
            ELSE rest

\* the scan loop from 0-based index i on: recentKeyFilings
RECURSIVE ScanFrom(_, _, _, _)
ScanFrom(i, forms, filingDates, accessionNumbers) ==
    IF ~(i < Min(Len(forms), ScanLimit)) THEN <<>>
    ELSE LET rest == ScanFrom(i + 1, forms, filingDates, accessionNumbers)
         IN IF Keeps(forms, filingDates, i)
            THEN <<[form |-> forms[i + 1],
                    date |-> filingDates[i + 1],
                    accession |-> IF i < Len(accessionNumbers)
                                  THEN Some(accessionNumbers[i + 1]) ELSE Null]>> \o rest
            ELSE rest

\* one rendered line: `• ${form} (${description}) - Filed: ${date}\n`
FilingLine(filing) ==
    [form |-> filing.form, description |-> formDescriptions(filing.form), date |-> filing.date]

_analyzeRecentFilings(submissions) ==
    IF submissions.recent = Null
    THEN [note |-> "No recent filings available", lines |-> <<>>]
    ELSE LET recentFilings == submissions.recent[1]
             forms == IF recentFilings.form = Null THEN <<>> ELSE recentFilings.form[1].items
             filingDates == OrEmpty(recentFilings.filingDate)
             accessionNumbers == OrEmpty(recentFilings.accessionNumber)
             recentKeyFilings == ScanFrom(0, forms, filingDates, accessionNumbers)
             shown == SubSeq(recentKeyFilings, 1, Min(Len(recentKeyFilings), ShownLimit))
         IN IF Len(recentKeyFilings) > 0
            THEN [note |-> "", lines |-> [j \in 1..Len(shown) |-> FilingLine(shown[j])]]
            ELSE [note |-> "No key financial filings found in recent submissions", lines |-> <<>>]

\* forms.filter(form => form === f).length
CountForm(items, f) == Cardinality({i \in 1..Len(items) : items[i] = f})

\* _extractFinancialHighlights; a form that is no array has no filter
\* method, and the call throws a TypeError
_extractFinancialHighlights(submissions) ==
    IF submissions.recent # Null /\ submissions.recent[1].form # Null
    THEN LET form == submissions.recent[1].form[1]
         IN IF ~form.isArray
            THEN [threw |-> TRUE, message |-> "forms.filter is not a function", counts |-> Null]
            ELSE [threw |-> FALSE, message |-> "",
                  counts |-> Some([annualReports |-> CountForm(form.items, "10-K"),
                                   quarterlyReports |-> CountForm(form.items, "10-Q")])]
    ELSE [threw |-> FALSE, message |-> "", counts |-> Null]

BusinessDescription(description) ==
    IF Len(description) > DescriptionLimit
    THEN SubSeq(description, 1, DescriptionLimit) \o "..."
    ELSE description

\* _formatSECResults; threw when _extractFinancialHighlights throws
_formatSECResults(companyName, cikData, submissions) ==
    LET highlights == _extractFinancialHighlights(submissions)
    IN [threw |-> highlights.threw,
        message |-> highlights.message,
        text |-> [kind |-> "full",
                  query |-> companyName,
                  title |-> cikData.title,
                  ticker |-> IF cikData.ticker # "" THEN cikData.ticker ELSE "N/A",
                  cik |-> cikData.cik,
                  description |-> IF submissions.description # Null /\ submissions.description[1] # ""
                                  THEN Some(BusinessDescription(submissions.description[1]))
                                  ELSE Null,
                  industry |-> IF submissions.sic # Null /\ submissions.sic[1] # ""
                               THEN submissions.sic[1] ELSE "Not specified",
                  fiscalYearEnd |-> IF submissions.fiscalYearEnd # Null /\ submissions.fiscalYearEnd[1] # ""
                                    THEN submissions.fiscalYearEnd[1] ELSE "Not specified",
                  filings |-> _analyzeRecentFilings(submissions),
                  counts |-> highlights.counts]]

\* _fallbackCompanySearch: a static template around the query text
_fallbackCompanySearch(companyName) == [kind |-> "fallback", query |-> companyName]

\* the three fixed messages of _handleFinancialQuery
NeedNameMessage == [kind |-> "need-name"]
ScopeMessage == [kind |-> "scope"]
ApologyMessage == [kind |-> "apology"]

----------------------------------------------------------------------------
(* Bounded inputs of the two pure-function harnesses.                      *)

MaxNameLen == 3       \* longest name enumerated over NameAlphabet
ShortRun == 3         \* a short run of equal form types
LongRun == 18         \* a run that reaches the 20-entry scan limit

NameAlphabet == {"a", "e", "t", "A", " "}

RECURSIVE NamesUpTo(_)
NamesUpTo(n) ==
    IF n = 0 THEN {""}
    ELSE LET shorter == NamesUpTo(n - 1)
         IN shorter \cup {s \o c : s \in shorter, c \in NameAlphabet}

\* names that contain one or two directory keys, in either order
PairNames ==
    {knownCompanies[i].key \o " " \o knownCompanies[j].key :
        i \in 1..Len(knownCompanies), j \in 1..Len(knownCompanies)}

DressedNames ==
    {"  APPLE ", "Tesla Inc", "NVIDIA\n", "\tFaceBook", "Micro", "soft", "oo", "x",
     "Alphabet (Google)", "company  Netflix", "NotARealCompany123"}

LookupInputs == NamesUpTo(MaxNameLen) \cup PairNames \cup DressedNames

FormTypes == {"10-K", "10-Q", "8-K", "DEF 14A", "4"}
RunLens == {0, 1, ShortRun}

Run(f, n) == [i \in 1..n |-> f]
Ids(n) == [i \in 1..n |-> i]

\* form arrays made of up to three runs of equal form types, the first
\* run empty or long enough to reach the scan limit
FormArrays ==
    {Run(f1, n1) \o Run(f2, n2) \o Run(f3, n3) :
        f1 \in {"4", "10-K"}, f2 \in FormTypes, f3 \in FormTypes,
        n1 \in {0, LongRun}, n2 \in RunLens, n3 \in RunLens}

\* lengths of filingDate / accessionNumber against a form array of length n
OtherLens(n) ==
    {0, n, n + 1} \cup (IF n > 0 THEN {n - 1} ELSE {}) \cup (IF n > LongRun THEN {LongRun} ELSE {})

Submission(recent) ==
    [description |-> Null, sic |-> Null, fiscalYearEnd |-> Null, recent |-> recent]

FilingsInputs ==
    {Submission(Null)}
    \cup {Submission(Some([form |-> Null, filingDate |-> Some(Ids(2)), accessionNumber |-> Null]))}
    \cup {Submission(Some([form |-> Some([isArray |-> TRUE, items |-> forms]),
                           filingDate |-> Null,
                           accessionNumber |-> Null])) : forms \in FormArrays}
    \cup UNION {{Submission(Some([form |-> Some([isArray |-> TRUE, items |-> forms]),
                                  filingDate |-> Some(Ids(nd)),
                                  accessionNumber |-> Some(Ids(na))])) :
                    nd \in OtherLens(Len(forms)), na \in {0, Len(forms)}} : forms \in FormArrays}

\* the directory harness: draw a name, look it up
LookupInit ==
    /\ now = 0 /\ lastRequestTime = 0 /\ proc = <<>> /\ lastGet = <<>> /\ received = 0
    /\ lookupArg \in LookupInputs
    /\ lookupRes = [done |-> FALSE, result |-> Null]
    /\ filingsArg = Submission(Null)
    /\ filingsRes = [done |-> FALSE, result |-> [note |-> "", lines |-> <<>>]]

LookupCall ==
    /\ ~lookupRes.done
    /\ lookupRes' = [done |-> TRUE, result |-> _fallbackCompanyLookup(lookupArg)]
    /\ UNCHANGED <<now, lastRequestTime, proc, lastGet, received, lookupArg, filingsArg, filingsRes>>

LookupNext == LookupCall
SpecLookup == LookupInit /\ [][LookupNext]_vars

\* the formatter harness: draw a parsed response, render its filings section
FilingsInit ==
    /\ now = 0 /\ lastRequestTime = 0 /\ proc = <<>> /\ lastGet = <<>> /\ received = 0
    /\ lookupArg = ""
    /\ lookupRes = [done |-> FALSE, result |-> Null]
    /\ filingsArg \in FilingsInputs
    /\ filingsRes = [done |-> FALSE, result |-> [note |-> "", lines |-> <<>>]]

FilingsCall ==
    /\ ~filingsRes.done
    /\ filingsRes' = [done |-> TRUE, result |-> _analyzeRecentFilings(filingsArg)]
    /\ UNCHANGED <<now, lastRequestTime, proc, lastGet, received, lookupArg, lookupRes, filingsArg>>

FilingsNext == FilingsCall
SpecFilings == FilingsInit /\ [][FilingsNext]_vars

----------------------------------------------------------------------------
(* Properties of the company directory (SpecLookup).                       *)

\* the entries (1-based positions in declared order) that the normalized
\* name matches in either direction
MatchingEntries(name) ==
    {i \in 1..Len(knownCompanies) :
        \/ includes(knownCompanies[i].key, trim(toLowerCase(name)))
        \/ includes(trim(toLowerCase(name)), knownCompanies[i].key)}

Least(S) == CHOOSE i \in S : \A k \in S : i <= k

\* C6: a name that is empty after trimming resolves to no identity.
C6_EmptyNameNotFound ==
    (lookupRes.done /\ trim(lookupArg) = "") => lookupRes.result = Null

\* C7: the lookup returns the identity of the earliest entry, in declared
\* order, whose key contains the normalized name or is contained in it, and
\* not-found exactly when no entry matches.
C7_FirstMatchWins ==
    lookupRes.done =>
        IF MatchingEntries(lookupArg) = {}
        THEN lookupRes.result = Null
        ELSE lookupRes.result =
                Some(CompanyData(knownCompanies[Least(MatchingEntries(lookupArg))]))

\* C7 witness: a name in which a later key stands before an earlier one
C7_Witness ==
    /\ lookupRes.done
    /\ lookupArg = "netflix apple"
    /\ MatchingEntries(lookupArg) = {1, 10}
    /\ lookupRes.result = Some(CompanyData(knownCompanies[1]))

----------------------------------------------------------------------------
(* Properties of the Recent Filings section (SpecFilings).                 *)

FormsOf(submissions) ==
    IF submissions.recent = Null \/ submissions.recent[1].form = Null
    THEN <<>> ELSE submissions.recent[1].form[1].items

DatesOf(submissions) ==
    IF submissions.recent = Null THEN <<>> ELSE OrEmpty(submissions.recent[1].filingDate)

KeyFormSet == {"10-K", "10-Q", "8-K", "DEF 14A"}

\* positions (1-based) among the first 20 forms that carry a key form type
KeyPositions(forms) == {i \in 1..Min(Len(forms), 20) : forms[i] \in KeyFormSet}

\* those of them that have a filing date at the same position
DatedKeyPositions(forms, dates) == {i \in KeyPositions(forms) : i <= Len(dates)}

\* the j-th smallest element of a set of positions
Nth(S, j) == CHOOSE i \in S : Cardinality({k \in S : k < i}) = j - 1

\* C8 as stated: the lines are the first 5 of the key-form entries among the
\* first 20 forms, in order, whatever the lengths of the three arrays.
C8_FirstFiveOfKeyForms ==
    filingsRes.done =>
        LET forms == FormsOf(filingsArg)
            K == KeyPositions(forms)
            lines == filingsRes.result.lines
        IN /\ Len(lines) = Min(5, Cardinality(K))
           /\ \A j \in 1..Len(lines) : lines[j].form = forms[Nth(K, j)]

\* C8 amended: the lines are the first 5 of the entries among the first 20
\* forms that carry a key form type and have a filing date at their index,
\* in order, each with its form, its label and its own filing date.
C8_FirstFiveOfDatedKeyForms ==
    filingsRes.done =>
        LET forms == FormsOf(filingsArg)
            dates == DatesOf(filingsArg)
            K == DatedKeyPositions(forms, dates)
            lines == filingsRes.result.lines
        IN /\ Len(lines) = Min(5, Cardinality(K))
           /\ \A j \in 1..Len(lines) :
                /\ lines[j].form = forms[Nth(K, j)]
                /\ lines[j].date = dates[Nth(K, j)]
                /\ lines[j].description \in
                     {"Annual Report", "Quarterly Report", "Current Report", "Proxy Statement"}

\* C8 witness: more than 5 dated key entries, one key entry beyond the 20th
\* form and one key entry without a filing date
C8_Witness ==
    /\ filingsRes.done
    /\ Len(filingsRes.result.lines) = 5
    /\ Cardinality(DatedKeyPositions(FormsOf(filingsArg), DatesOf(filingsArg))) > 5
    /\ \E i \in 21..Len(FormsOf(filingsArg)) : FormsOf(filingsArg)[i] \in KeyFormSet
    /\ KeyPositions(FormsOf(filingsArg)) # DatedKeyPositions(FormsOf(filingsArg), DatesOf(filingsArg))

----------------------------------------------------------------------------
(* The agent: processEnvelope and the query pipeline.                      *)

rateLimitDelay == 3000

\* createSECAgent({speakerUri, serviceUrl, ...}) of the server
MySpeakerUri == "tag:openfloor-research.com,2025:sec-agent"
MyServiceUrl == "https://wzy3kbgcpr.us-east-1.awsapprunner.com/"
OtherSpeakerUri == "tag:example.com,2025:other-agent"
OtherServiceUrl == "https://other.example.com/"
SenderUri == "tag:example.com,2025:client"

NumProcs == 2         \* POST requests in flight at once
MaxEvents == 2        \* events per envelope
MaxTotalEvents == 2   \* events received by the agent over a run
Epoch == 10000        \* Date.now() when the first envelope arrives
TickStep == 1500      \* the clock advances in steps of this many ms
MaxTicks == 2         \* clock steps modelled

Procs == 1..NumProcs
MaxTime == Epoch + MaxTicks * TickStep

To(speakerUri, serviceUrl) == Some([speakerUri |-> speakerUri, serviceUrl |-> serviceUrl])
Utterance(to, tokens) == [eventType |-> "utterance", to |-> to, tokens |-> tokens]
Other(eventType, to) == [eventType |-> eventType, to |-> to, tokens |-> Null]

\* inbound events: event.to is absent or names a speakerUri and/or a
\* serviceUrl; tokens is dialogEvent.features.text.tokens (values), absent
\* when the utterance carries no text feature
Events == {
    Utterance(Null, Some(<<"Apple", " STOCK">>)),
    Utterance(To(Some(MySpeakerUri), Null), Some(<<"company ", "Foo">>)),
    Utterance(To(Some(OtherSpeakerUri), Some(MyServiceUrl)), Some(<<"hello">>)),
    Utterance(To(Null, Some(MyServiceUrl)), Some(<<>>)),
    Utterance(To(Some(OtherSpeakerUri), Some(OtherServiceUrl)), Some(<<"Tesla", " ticker">>)),
    Other("getManifests", Null),
    Other("invite", To(Some(MySpeakerUri), Null)) }

RECURSIVE EventSeqs(_)
EventSeqs(n) ==
    IF n = 0 THEN {<<>>}
    ELSE LET shorter == EventSeqs(n - 1)
         IN shorter \cup {Append(es, e) : es \in shorter, e \in Events}

Envelopes == {[sender |-> SenderUri, events |-> es] : es \in EventSeqs(MaxEvents)}

\* what a GET can come to: the fetch promise rejects, or resolves to a
\* response with a status and a body that response.json() parses or not
GoodSubmissions ==
    [description |-> Some("Designs and sells consumer electronics"),
     sic |-> Some("3571"), fiscalYearEnd |-> Some("0930"),
     recent |-> Some([form |-> Some([isArray |-> TRUE,
                                     items |-> <<"4", "10-Q", "8-K", "4", "10-K">>]),
                      filingDate |-> Some(Ids(5)),
                      accessionNumber |-> Some(Ids(5))])]

\* filings.recent.form is a string, not an array
MistypedSubmissions ==
    Submission(Some([form |-> Some([isArray |-> FALSE, items |-> <<"1", "0", "-", "K">>]),
                     filingDate |-> Null, accessionNumber |-> Null]))

Rejected == [kind |-> "rejected", status |-> 0, jsonOk |-> FALSE, body |-> Null]
Response(status, jsonOk, body) ==
    [kind |-> "response", status |-> status, jsonOk |-> jsonOk, body |-> body]

FetchOutcomes == {
    Rejected,
    Response(404, TRUE, Null),
    Response(500, TRUE, Null),
    Response(200, FALSE, Null),
    Response(200, TRUE, Some(GoodSubmissions)),
    Response(200, TRUE, Some(MistypedSubmissions)) }

\* response.ok
Ok(outcome) == outcome.status >= 200 /\ outcome.status <= 299

\* a client that lets every failure of the request escape as an exception
GetCompanySubmissionsThrowing(outcome) ==
    IF outcome.kind = "rejected" THEN [threw |-> TRUE, message |-> "fetch failed", value |-> Null]
    ELSE IF ~Ok(outcome)
         THEN [threw |-> TRUE,
               message |-> "SEC API error: " \o (IF outcome.status = 404 THEN "404" ELSE "500"),
               value |-> Null]
         ELSE IF ~outcome.jsonOk
              THEN [threw |-> TRUE, message |-> "Unexpected token", value |-> Null]
              ELSE [threw |-> FALSE, message |-> "", value |-> outcome.body]

\* _getCompanySubmissions once the fetch has settled: every failure inside
\* the try (rejection, !response.ok, a body that is not JSON) is caught and
\* gives null; a body that is the JSON value null gives null as well
_getCompanySubmissions(outcome) ==
    IF outcome.kind = "rejected" THEN [threw |-> FALSE, message |-> "", value |-> Null]
    ELSE IF ~Ok(outcome)
         THEN [threw |-> FALSE, message |-> "", value |-> Null]
         ELSE IF ~outcome.jsonOk
              THEN [threw |-> FALSE, message |-> "", value |-> Null]
              ELSE [threw |-> FALSE, message |-> "", value |-> outcome.body]

\* the rest of _searchSEC once _getCompanySubmissions has settled:
\* [threw, message, text]; in the catch block an error whose message holds
\* '404' becomes the fallback report, any other error is thrown on
SearchAfterFetch(companyName, cikData, outcome) ==
    LET got == _getCompanySubmissions(outcome)
        tried == IF got.threw
                 THEN [threw |-> TRUE, message |-> got.message, text |-> ApologyMessage]
                 ELSE IF got.value # Null
                      THEN _formatSECResults(companyName, cikData, got.value[1])
                      ELSE [threw |-> FALSE, message |-> "",
                            text |-> _fallbackCompanySearch(companyName)]
    IN IF tried.threw /\ includes(tried.message, "404")
       THEN [threw |-> FALSE, message |-> "", text |-> _fallbackCompanySearch(companyName)]
       ELSE tried

\* a handler without its try/catch: an error of _searchSEC escapes
HandlerResultNoCatch(searched) == [threw |-> searched.threw, text |-> searched.text]

\* the try/catch of _handleFinancialQuery around _searchSEC: the text of the
\* utterance it returns; nothing is thrown on
HandlerResult(searched) ==
    [threw |-> FALSE, text |-> IF searched.threw THEN ApologyMessage ELSE searched.text]

\* a dispatch that does not look at the recipient
addressedToAnyone(event) == TRUE

addressedToMe(event) ==
    \/ event.to = Null
    \/ event.to[1].speakerUri = Some(MySpeakerUri)
    \/ event.to[1].serviceUrl = Some(MyServiceUrl)

isUtteranceEvent(event) == event.eventType = "utterance"

createTextUtterance(text, to) ==
    [eventType |-> "utterance", speakerUri |-> MySpeakerUri, to |-> to, text |-> text]

publishManifests(to) ==
    [eventType |-> "publishManifests", speakerUri |-> MySpeakerUri, to |-> to,
     text |-> [kind |-> "manifest"]]

\* One processEnvelope call runs from one await that suspends it to the
\* next.  A run state st is [pr, last, lastGet]: the call's own record, the
\* shared lastRequestTime and the history of the latest GET, as the run
\* leaves them.
\*   pr.pc       "idle" (no envelope), "sleeping" (in _rateLimit's
\*               setTimeout), "fetching" (in fetch), "done" (the response
\*               envelope is returned, not yet sent) or "failed"
\*               (processEnvelope has rejected, the 500 is not yet sent)
\*   pr.idx      position of the event being handled
\*   pr.causes   history: for each response event, the inbound position
\*   pr.calls    history: one record per _handleFinancialQuery call
\*   lastGet     history: start and end time of the latest query that
\*               issued a GET

RECURSIVE RunLoop(_)
RECURSIVE Finish(_, _)

SetCall(st, field, value) ==
    [st EXCEPT !.pr.calls = [@ EXCEPT ![Len(@)] = [@ EXCEPT ![field] = value]]]

CurrentCall(st) == st.pr.calls[Len(st.pr.calls)]

\* the GET of _getCompanySubmissions starts
StartFetch(st, cikData) ==
    [SetCall(SetCall(st, "gets", Append(CurrentCall(st).gets, now)),
             "prevGet", IF st.lastGet = Null THEN Null ELSE Some(st.lastGet[1].tGet))
        EXCEPT !.pr.pc = "fetching",
               !.pr.cikData = cikData,
               !.lastGet = Some([tGet |-> now, tEnd |-> Null, slot |-> st.pr.slot])]

\* _searchSEC after `await this._rateLimit()` has recorded the time:
\* resolve the company, then fall back or start the GET
AfterRateLimit(st) ==
    LET c == CurrentCall(st)
        stamped == [SetCall(SetCall(st, "stamp", Some(now)), "lookups", c.lookups + 1)
                       EXCEPT !.last = now]
        cikData == _findCompanyCIK(c.companyName)
    IN IF cikData = Null
       THEN Finish(stamped, _fallbackCompanySearch(c.companyName))
       ELSE StartFetch(stamped, cikData)

\* _rateLimit: waitTime = rateLimitDelay - (Date.now() - lastRequestTime)
WaitTime(last) == rateLimitDelay - (now - last)

\* a _searchSEC whose rate-limit gate computes the wait and does not await it
SearchSECNoWait(st) == AfterRateLimit(st)

\* _searchSEC up to its first suspension: the rate-limit gate comes first
SearchSEC(st) ==
    IF WaitTime(st.last) > 0
    THEN [SetCall(st, "wait", WaitTime(st.last))
             EXCEPT !.pr.pc = "sleeping", !.pr.due = now + WaitTime(st.last)]
    ELSE AfterRateLimit(st)

\* a handler without the scope gate: every query with text is searched
HandleFinancialQueryNoGate(st0) ==
    LET event == st0.pr.env.events[st0.pr.idx]
        tokens == OrEmpty(event.tokens)
        call == [idx |-> st0.pr.idx, hasTokens |-> Len(tokens) > 0,
                 companyName |-> join(tokens), wait |-> 0, stamp |-> Null,
                 lookups |-> 0, gets |-> <<>>, outcome |-> Null, tEnd |-> Null,
                 response |-> Null, lastAtBegin |-> st0.last,
                 prevAtBegin |-> st0.lastGet, prevGet |-> Null]
        st == [st0 EXCEPT !.pr.calls = Append(@, call)]
    IN IF Len(tokens) = 0 THEN Finish(st, NeedNameMessage) ELSE SearchSEC(st)

\* _handleFinancialQuery up to its first suspension
HandleFinancialQuery(st0) ==
    LET event == st0.pr.env.events[st0.pr.idx]
        tokens == OrEmpty(event.tokens)
        call == [idx |-> st0.pr.idx, hasTokens |-> Len(tokens) > 0,
                 companyName |-> join(tokens), wait |-> 0, stamp |-> Null,
                 lookups |-> 0, gets |-> <<>>, outcome |-> Null, tEnd |-> Null,
                 response |-> Null, lastAtBegin |-> st0.last,
                 prevAtBegin |-> st0.lastGet, prevGet |-> Null]
        st == [st0 EXCEPT !.pr.calls = Append(@, call)]
    IN IF Len(tokens) = 0 THEN Finish(st, NeedNameMessage)
       ELSE IF ~_isFinancialQuery(call.companyName) THEN Finish(st, ScopeMessage)
       ELSE SearchSEC(st)

\* _handleFinancialQuery returns the utterance; processEnvelope pushes it
\* and goes on to the next event
Finish(st, text) ==
    LET ended == SetCall(SetCall(st, "tEnd", Some(now)), "response", Some(text))
        mine == /\ st.lastGet # Null
                /\ st.lastGet[1].slot = st.pr.slot
                /\ st.lastGet[1].tEnd = Null
                /\ CurrentCall(st).gets # <<>>
    IN RunLoop([ended EXCEPT
                   !.pr.responseEvents = Append(@, createTextUtterance(text, st.pr.env.sender)),
                   !.pr.causes = Append(@, st.pr.idx),
                   !.pr.idx = @ + 1,
                   !.pr.pc = "running",
                   !.lastGet = IF mine THEN Some([@[1] EXCEPT !.tEnd = Some(now)]) ELSE @])

\* the for loop of processEnvelope from event pr.idx on
RunLoop(st) ==
    IF st.pr.idx > Len(st.pr.env.events)
    THEN [st EXCEPT !.pr.pc = "done"]
    ELSE LET event == st.pr.env.events[st.pr.idx]
         IN IF addressedToMe(event) /\ isUtteranceEvent(event)
            THEN HandleFinancialQuery(st)
            ELSE IF addressedToMe(event) /\ event.eventType = "getManifests"
                 THEN RunLoop([st EXCEPT
                                  !.pr.responseEvents = Append(@, publishManifests(st.pr.env.sender)),
                                  !.pr.causes = Append(@, st.pr.idx),
                                  !.pr.idx = @ + 1])
                 ELSE RunLoop([st EXCEPT !.pr.idx = @ + 1])

NewProc(slot, env) ==
    [pc |-> "running", slot |-> slot, env |-> env, idx |-> 1, responseEvents |-> <<>>,
     causes |-> <<>>, calls |-> <<>>, due |-> 0, cikData |-> Null]

IdleProc(slot) == [NewProc(slot, [sender |-> SenderUri, events |-> <<>>]) EXCEPT !.pc = "idle"]

Here(p) == [pr |-> proc[p], last |-> lastRequestTime, lastGet |-> lastGet]

Commit(p, st) ==
    /\ proc' = [proc EXCEPT ![p] = st.pr]
    /\ lastRequestTime' = st.last
    /\ lastGet' = st.lastGet
    /\ UNCHANGED <<now, lookupArg, lookupRes, filingsArg, filingsRes>>

\* Between the return of processEnvelope and res.json(response) the server
\* awaits nothing: no other callback runs while an envelope is "done".
Quiet == \A q \in Procs : proc[q].pc \notin {"done", "failed"}

\* app.post('/'): a validated envelope reaches secAgent.processEnvelope, in
\* the lowest free slot
ReceiveFrom(p, envelopes, budget) ==
    /\ Quiet
    /\ proc[p].pc = "idle"
    /\ \A q \in 1..(p - 1) : proc[q].pc # "idle"
    /\ \E env \in envelopes :
          /\ received + Len(env.events) <= budget
          /\ received' = received + Len(env.events)
          /\ Commit(p, RunLoop([Here(p) EXCEPT !.pr = NewProc(p, env)]))

Receive(p) == ReceiveFrom(p, Envelopes, MaxTotalEvents)

\* the setTimeout of _rateLimit fires, at its due time or later
TimerFires(p) ==
    /\ Quiet
    /\ proc[p].pc = "sleeping"
    /\ now >= proc[p].due
    /\ Commit(p, AfterRateLimit(Here(p)))
    /\ UNCHANGED received

\* the GET settles, after any latency
SettlesWith(p, outcomes) ==
    /\ Quiet
    /\ proc[p].pc = "fetching"
    /\ \E outcome \in outcomes :
          LET c == CurrentCall(Here(p))
              searched == SearchAfterFetch(c.companyName, proc[p].cikData[1], outcome)
              handled == HandlerResult(searched)
              settled == SetCall(Here(p), "outcome", Some(outcome))
          IN IF handled.threw
             THEN Commit(p, [settled EXCEPT !.pr.pc = "failed"])
             ELSE Commit(p, Finish(settled, handled.text))
    /\ UNCHANGED received

FetchSettles(p) == SettlesWith(p, FetchOutcomes)

\* res.json(response), or res.status(500).json(...) in the catch block of
\* the route: the POST is over
Respond(p) ==
    /\ proc[p].pc \in {"done", "failed"}
    /\ proc' = [proc EXCEPT ![p] = IdleProc(p)]
    /\ UNCHANGED <<now, lastRequestTime, lastGet, received, lookupArg, lookupRes, filingsArg, filingsRes>>

\* the clock advances
Tick ==
    /\ Quiet
    /\ now < MaxTime
    /\ now' = now + TickStep
    /\ UNCHANGED <<lastRequestTime, proc, lastGet, received, lookupArg, lookupRes, filingsArg, filingsRes>>

Init ==
    /\ now = Epoch
    /\ lastRequestTime = 0
    /\ proc = [p \in Procs |-> IdleProc(p)]
    /\ lastGet = Null
    /\ received = 0
    /\ lookupArg = ""
    /\ lookupRes = [done |-> FALSE, result |-> Null]
    /\ filingsArg = Submission(Null)
    /\ filingsRes = [done |-> FALSE, result |-> [note |-> "", lines |-> <<>>]]

Next ==
    \/ \E p \in Procs : Receive(p)
    \/ \E p \in Procs : TimerFires(p)
    \/ \E p \in Procs : FetchSettles(p)
    \/ \E p \in Procs : Respond(p)
    \/ Tick

Spec == Init /\ [][Next]_vars

\* the same agent when the host hands it one envelope at a time
ReceiveAlone(p) ==
    /\ \A q \in Procs : proc[q].pc = "idle"
    /\ Receive(p)

NextSeq ==
    \/ \E p \in Procs : ReceiveAlone(p)
    \/ \E p \in Procs : TimerFires(p)
    \/ \E p \in Procs : FetchSettles(p)
    \/ \E p \in Procs : Respond(p)
    \/ Tick

SpecSeq == Init /\ [][NextSeq]_vars

\* the same agent under a burst of in-scope queries
BurstEvents == 3      \* events received by the agent over a burst

QueryEvents == {e \in Events : /\ e.eventType = "utterance"
                               /\ e.to = Null \/ e.to[1].speakerUri = Some(MySpeakerUri)
                               /\ e.tokens # Null /\ e.tokens[1] # <<>>}

BurstEnvelopes == {env \in Envelopes : \A i \in 1..Len(env.events) : env.events[i] \in QueryEvents}

ReceiveBurst(p) == ReceiveFrom(p, BurstEnvelopes, BurstEvents)

NextBurst ==
    \/ \E p \in Procs : ReceiveBurst(p)
    \/ \E p \in Procs : TimerFires(p)
    \/ \E p \in Procs : FetchSettles(p)
    \/ \E p \in Procs : Respond(p)
    \/ Tick

SpecBurst == Init /\ [][NextBurst]_vars

----------------------------------------------------------------------------
(* Properties of the agent (Spec, SpecSeq, SpecBurst).                     *)

\* the _handleFinancialQuery calls of the envelopes in flight
CallIds == {<<p, k>> \in Procs \X (1..MaxTotalEvents + BurstEvents) : k <= Len(proc[p].calls)}
CallOf(id) == proc[id[1]].calls[id[2]]
Ended(c) == c.tEnd # Null

\* the response events that inbound position i of envelope p has caused
ResponsesTo(p, i) == {j \in 1..Len(proc[p].causes) : proc[p].causes[j] = i}

\* C1: of two queries that each issue a GET, handled one after the other
\* (the second begins after the first has returned and no other query has
\* passed the rate-limit gate in between), the second GET starts at least
\* 3000 ms after the first; and when the first query's request took 3000 ms
\* or more, the second query does not wait.
C1_SequentialSpacing ==
    \A id \in CallIds :
        LET c == CallOf(id)
        IN (c.gets # <<>> /\ c.prevAtBegin # Null /\ c.prevAtBegin[1].tEnd # Null) =>
              LET first == c.prevAtBegin[1]
              IN /\ c.gets[1] - first.tGet >= 3000
                 /\ (first.tEnd[1] - first.tGet >= 3000 /\ c.lastAtBegin = first.tGet)
                        => c.wait = 0

\* C1 witness: a second query that found the first one's GET less than
\* 3000 ms old, waited for the rest, and then issued its own GET
C1_Witness ==
    \E id \in CallIds :
        /\ CallOf(id).gets # <<>>
        /\ CallOf(id).prevAtBegin # Null
        /\ CallOf(id).prevAtBegin[1].tEnd # Null
        /\ CallOf(id).wait > 0
        /\ CallOf(id).wait < 3000

\* C2: any two GETs of the agent start at least 3000 ms apart, also when
\* envelopes are handled concurrently (each GET against the latest one
\* before it; the clock never runs backwards).
C2_SpacingUnderConcurrency ==
    \A id \in CallIds :
        (CallOf(id).gets # <<>> /\ CallOf(id).prevGet # Null) =>
            CallOf(id).gets[1] - CallOf(id).prevGet[1] >= 3000

\* the query text holds none of the 18 keywords, compared in lower case
NoKeyword(text) ==
    LET lower == toLowerCase(text)
    IN \A i \in 1..Len(financialIndicators) : ~includes(lower, financialIndicators[i])

\* C3: a query text without any keyword is answered with the scope message,
\* and handling it looks nothing up, requests nothing and does not wait or
\* touch the last-call time.
C3_OutOfScope ==
    \A id \in CallIds :
        LET c == CallOf(id)
        IN (c.hasTokens /\ NoKeyword(c.companyName)) =>
              /\ c.response = Some([kind |-> "scope"])
              /\ c.lookups = 0
              /\ c.gets = <<>>
              /\ c.wait = 0
              /\ c.stamp = Null
              /\ \A j \in ResponsesTo(id[1], c.idx) :
                    proc[id[1]].responseEvents[j].text = [kind |-> "scope"]

C3_Witness ==
    \E id \in CallIds :
        /\ CallOf(id).companyName = "hello"
        /\ CallOf(id).response = Some(ScopeMessage)
        /\ lastRequestTime > 0

\* C4: processEnvelope never rejects, and every utterance addressed to the
\* agent that it has handled has exactly one response event: a text
\* utterance to the envelope's sender carrying the scope message, a full
\* report, a fallback report or the apology (or, for an utterance without
\* tokens, the request for a company name).
C4_NoErrorEscapes ==
    \A p \in Procs :
        /\ proc[p].pc # "failed"
        /\ \A i \in 1..Len(proc[p].env.events) :
              LET e == proc[p].env.events[i]
                  toMe == \/ e.to = Null
                          \/ e.to[1].speakerUri = Some(MySpeakerUri)
                          \/ e.to[1].serviceUrl = Some(MyServiceUrl)
              IN (i < proc[p].idx /\ toMe /\ e.eventType = "utterance") =>
                    /\ Cardinality(ResponsesTo(p, i)) = 1
                    /\ \A j \in ResponsesTo(p, i) :
                          LET r == proc[p].responseEvents[j]
                          IN /\ r.eventType = "utterance"
                             /\ r.to = proc[p].env.sender
                             /\ IF OrEmpty(e.tokens) = <<>>
                                THEN r.text.kind = "need-name"
                                ELSE r.text.kind \in {"scope", "full", "fallback", "apology"}

\* C4 witness: an error thrown while formatting came back as the apology
C4_Witness ==
    \E id \in CallIds :
        /\ CallOf(id).outcome = Some(Response(200, TRUE, Some(MistypedSubmissions)))
        /\ CallOf(id).response = Some([kind |-> "apology"])
        /\ proc[id[1]].pc = "done"

FetchFailed(outcome) ==
    outcome.kind = "rejected" \/ outcome.status < 200 \/ outcome.status > 299

\* C5: a resolved query whose GET fails (404, another status, a network
\* failure) gets the fallback report of an unresolved company for its query
\* text, and no query issues more than one GET.
C5_FetchFailureFallsBack ==
    \A id \in CallIds :
        LET c == CallOf(id)
        IN /\ Len(c.gets) <= 1
           /\ (c.outcome # Null /\ FetchFailed(c.outcome[1])) =>
                 /\ c.response = Some([kind |-> "fallback", query |-> c.companyName])
                 /\ Len(c.gets) = 1

C5_Witness ==
    \E id \in CallIds :
        /\ CallOf(id).outcome = Some(Response(500, TRUE, Null))
        /\ CallOf(id).response = Some([kind |-> "fallback", query |-> "Apple STOCK"])

\* C9: a query that has returned without issuing a GET (out of scope, or
\* not resolved) has neither waited nor changed the last-call time.
C9_GateOnlyBeforeGet ==
    \A id \in CallIds :
        (Ended(CallOf(id)) /\ CallOf(id).gets = <<>>) =>
            (CallOf(id).wait = 0 /\ CallOf(id).stamp = Null)

\* C10: every response event answers an utterance or getManifests event
\* addressed to the agent; an event addressed elsewhere causes no response
\* and no query handling; no event causes two responses, and responses keep
\* the order of the events that caused them.
C10_AddressedOnly ==
    \A p \in Procs :
        LET pr == proc[p]
            ToMe(e) == \/ e.to = Null
                       \/ e.to[1].speakerUri = Some(MySpeakerUri)
                       \/ e.to[1].serviceUrl = Some(MyServiceUrl)
        IN /\ \A j \in 1..Len(pr.causes) :
                 /\ ToMe(pr.env.events[pr.causes[j]])
                 /\ pr.env.events[pr.causes[j]].eventType \in {"utterance", "getManifests"}
           /\ \A k \in 1..Len(pr.calls) : ToMe(pr.env.events[pr.calls[k].idx])
           /\ \A j \in 1..(Len(pr.causes) - 1) : pr.causes[j] < pr.causes[j + 1]
           /\ Len(pr.responseEvents) = Len(pr.causes)

\* C10 witness: an in-scope utterance for another agent is passed over,
\* the getManifests request after it is answered
C10_Witness ==
    \E p \in Procs :
        /\ proc[p].pc = "done"
        /\ Len(proc[p].env.events) = 2
        /\ proc[p].env.events[1].to = To(Some(OtherSpeakerUri), Some(OtherServiceUrl))
        /\ proc[p].env.events[1].eventType = "utterance"
        /\ proc[p].causes = <<2>>
        /\ proc[p].responseEvents[1].eventType = "publishManifests"
        /\ proc[p].calls = <<>>
        /\ lastRequestTime = 0

====
